---- MODULE Spec2Model ----
(***************************************************************************)
(* A model of walktour's tour utilities (src/src/utils/tour.ts):           *)
(*   - the keyboard focus trap (getFocusTrapHandler, setFocusTrap),        *)
(*   - debounce,                                                           *)
(*   - click-driven step advancement (takeActionIfValid,                   *)
(*     setNextOnTargetClick),                                              *)
(*   - the update-decision predicate targetChanged.                        *)
(* Each part has its own specification over the part's variables; the      *)
(* variables of the other parts stay at their initial values.              *)
(***************************************************************************)
EXTENDS Integers, Sequences, FiniteSets

VARIABLES
    \* ---- focus trap ----
    dom,                 \* the page: which elements exist, how many focusables
    focus,               \* document.activeElement
    listeners,           \* keydown listeners registered on container / target
    trapState,           \* "unset" | "noop" | "set" | "released"
    targetTrapHandler,   \* closure variable of setFocusTrap (empty = undefined)
    tooltipTrapHandler,  \* closure variable of setFocusTrap (empty = undefined)
    lastEvent,           \* the last keydown dispatched, with its outcome
    threw,               \* a handler raised a TypeError
    cleanups,            \* how often the cleanup closure has been invoked
    \* ---- debounce ----
    interval,            \* the interval argument of debounce
    now,                 \* current time
    timeoutId,           \* closure variable of debounce (0 = not yet assigned)
    timers,              \* pending window timers: set of [id, due, args]
    nextTimerId,         \* the id window.setTimeout hands out next
    calls,               \* history: invocations of the wrapper, [at, args]
    fired,               \* history: invocations of f, [at, args]
    \* ---- setNextOnTargetClick / takeActionIfValid ----
    click,               \* registration state and inputs of setNextOnTargetClick
    tasks,               \* one record per takeActionIfValid invocation
    log,                 \* history of observable events
    \* ---- update decision ----
    args,                \* argument bundle of the predicate
    ret                  \* what the call returned

trapVars  == <<dom, focus, listeners, trapState, targetTrapHandler,
               tooltipTrapHandler, lastEvent, threw, cleanups>>
debVars   == <<interval, now, timeoutId, timers, nextTimerId, calls, fired>>
clickVars == <<click, tasks, log>>
decVars   == <<args, ret>>
vars      == <<trapVars, debVars, clickVars, decVars>>

(***************************************************************************)
(* Bounds                                                                  *)
(***************************************************************************)
MaxFocusables == 3      \* focusable elements per region
MaxCleanups == 2        \* invocations of the focus trap's cleanup closure
MaxInterval == 2        \* largest debounce interval
MaxTime == 6            \* the clock stops here
MaxCalls == 3           \* invocations of the debounced wrapper
MaxArg == 2             \* distinct argument values passed to the wrapper
MaxClicks == 3          \* clicks on the target
MaxDetach == 2          \* invocations of the detach closure
MaxCoord == 1           \* coordinates range over 0..MaxCoord
MaxDim == 2             \* widths and heights range over 1..MaxDim
MaxTolerance == 2       \* finite rerender tolerances range over 0..MaxTolerance

(***************************************************************************)
(* Elements of the page.  An element is a record [r, i]: r names the       *)
(* region ("tip": a focusable inside the tooltip container, "tgt": a       *)
(* focusable of the target, "container": the tooltip container itself,     *)
(* "page": a focusable elsewhere on the page) and i its index there.       *)
(***************************************************************************)
El(r, i)  == [r |-> r, i |-> i]
None      == El("none", 0)        \* undefined
Container == El("container", 0)

\* the focusables of a region, in document order
Focusables(r, from, to) == [k \in 1..(to - from + 1) |-> El(r, from + k - 1)]

TooltipFocusables == Focusables("tip", 1, dom.tipN)
TargetFocusables  == Focusables("tgt", 1, dom.tgtN)

\* The tabbing order of the document.  When the tooltip is rendered inside
\* the target (dom.tipAt >= 0) it sits after the target's tipAt-th focusable;
\* otherwise it is a separate subtree further down the page.
DocOrder ==
    IF dom.tipAt >= 0
    THEN <<El("page", 1)>> \o Focusables("tgt", 1, dom.tipAt)
         \o (IF dom.tooltipContainer THEN <<Container>> ELSE <<>>)
         \o TooltipFocusables
         \o Focusables("tgt", dom.tipAt + 1, dom.tgtN) \o <<El("page", 2)>>
    ELSE <<El("page", 1)>> \o TargetFocusables \o <<El("page", 2)>>
         \o (IF dom.tooltipContainer THEN <<Container>> ELSE <<>>)
         \o TooltipFocusables \o <<El("page", 3)>>

Elements == {DocOrder[k] : k \in 1..Len(DocOrder)}

IndexOf(e) == CHOOSE k \in 1..Len(DocOrder) : DocOrder[k] = e

\* the container takes focus by script or click only (tabindex -1)
Tabbable(e) == e.r # "container"

\* sequential focus navigation of the browser: the nearest tabbable element
\* after (dir = 1) or before (dir = -1) e, wrapping around the document
RECURSIVE Step(_, _, _)
Step(k, dir, fuel) ==
    LET n == Len(DocOrder)
        j == ((k - 1 + dir + n) % n) + 1
    IN IF fuel = 0 \/ Tabbable(DocOrder[j]) THEN DocOrder[j]
       ELSE Step(j, dir, fuel - 1)

BrowserTab(e, shiftKey) ==
    Step(IndexOf(e), IF shiftKey THEN -1 ELSE 1, Len(DocOrder))

InTooltip(e) == e.r \in {"container", "tip"}
InTarget(e)  == e.r = "tgt" \/ (dom.tipAt >= 0 /\ InTooltip(e))

(***************************************************************************)
(* getEdgeFocusables(default, container, flag): the first and the last     *)
(* focusable of a subtree, undefined when it has none.                     *)
(***************************************************************************)
getEdgeFocusables(present, fs) ==
    IF present /\ Len(fs) > 0
    THEN [start |-> fs[1], end |-> fs[Len(fs)]]
    ELSE [start |-> None, end |-> None]

(***************************************************************************)
(* getFocusTrapHandler: the handler is the closure over its arguments; a   *)
(* keydown runs it on a dispatch state st = [focus, prevented, threw].     *)
(***************************************************************************)
TAB_KEYCODE == 9
\* some key that is not Tab (13 is Enter)
OTHER_KEYCODE == TAB_KEYCODE + 4
KeyCodes == {TAB_KEYCODE, OTHER_KEYCODE}

getFocusTrapHandler(a) ==
    [start |-> a.start, end |-> a.end, beforeStart |-> a.beforeStart,
     afterEnd |-> a.afterEnd, lightningRod |-> a.lightningRod]

\* e.preventDefault()
PreventDefault(st) == [st EXCEPT !.prevented = TRUE]

\* x.focus(); a TypeError when x is undefined
Focus(x, st) ==
    IF x = None THEN [st EXCEPT !.threw = TRUE] ELSE [st EXCEPT !.focus = x]

\* Faulty variants of the handler, used to show that the properties below
\* depend on it: one that forgets the beforeStart redirect, ...
FocusTrapHandler_IgnoresBeforeStart(h, e, st) ==
    IF e.keyCode = TAB_KEYCODE
    THEN IF e.shiftKey /\ e.target = h.start
         THEN Focus(h.end, PreventDefault(st))
         ELSE IF ~e.shiftKey /\ e.target = h.end
         THEN Focus(IF h.afterEnd # None THEN h.afterEnd ELSE h.start,
                    PreventDefault(st))
         ELSE IF e.target = h.lightningRod
         THEN Focus(h.start, PreventDefault(st))
         ELSE st
    ELSE st

\* ... one that does not intercept Tab on the last element, ...
FocusTrapHandler_NoForwardWrap(h, e, st) ==
    IF e.keyCode = TAB_KEYCODE
    THEN IF e.shiftKey /\ e.target = h.start
         THEN Focus(IF h.beforeStart # None THEN h.beforeStart ELSE h.end,
                    PreventDefault(st))
         ELSE IF e.target = h.lightningRod
         THEN Focus(h.start, PreventDefault(st))
         ELSE st
    ELSE st

\* ... and one without the lightning rod.
FocusTrapHandler_NoLightningRod(h, e, st) ==
    IF e.keyCode = TAB_KEYCODE
    THEN IF e.shiftKey /\ e.target = h.start
         THEN Focus(IF h.beforeStart # None THEN h.beforeStart ELSE h.end,
                    PreventDefault(st))
         ELSE IF ~e.shiftKey /\ e.target = h.end
         THEN Focus(IF h.afterEnd # None THEN h.afterEnd ELSE h.start,
                    PreventDefault(st))
         ELSE st
    ELSE st

\* ... and one that does not look at the key.
FocusTrapHandler_AnyKey(h, e, st) ==
    IF e.shiftKey /\ e.target = h.start
    THEN Focus(IF h.beforeStart # None THEN h.beforeStart ELSE h.end,
               PreventDefault(st))
    ELSE IF ~e.shiftKey /\ e.target = h.end
    THEN Focus(IF h.afterEnd # None THEN h.afterEnd ELSE h.start,
               PreventDefault(st))
    ELSE IF e.target = h.lightningRod
    THEN Focus(h.start, PreventDefault(st))
    ELSE st

FocusTrapHandler(h, e, st) ==
    IF e.keyCode = TAB_KEYCODE
    THEN IF e.shiftKey /\ e.target = h.start
         THEN Focus(IF h.beforeStart # None THEN h.beforeStart ELSE h.end,
                    PreventDefault(st))
         ELSE IF ~e.shiftKey /\ e.target = h.end
         THEN Focus(IF h.afterEnd # None THEN h.afterEnd ELSE h.start,
                    PreventDefault(st))
         ELSE IF e.target = h.lightningRod
         THEN Focus(h.start, PreventDefault(st))
         ELSE st
    ELSE st

\* run the listeners registered on one node (at most one per node here)
RunListeners(hs, e, st) ==
    IF hs = {} THEN st ELSE FocusTrapHandler(CHOOSE h \in hs : TRUE, e, st)

\* A keydown bubbles from its target up: the listener on the tooltip
\* container hears the events of the tooltip subtree, the listener on the
\* target those of the target subtree (the tooltip's too when it is nested).
Dispatch(e) ==
    LET st0 == [focus |-> focus, prevented |-> FALSE, threw |-> FALSE]
        st1 == IF InTooltip(e.target)
               THEN RunListeners(listeners.container, e, st0) ELSE st0
        st2 == IF InTarget(e.target)
               THEN RunListeners(listeners.target, e, st1) ELSE st1
    IN st2

\* the default action of the key, unless prevented
DefaultAction(e, st) ==
    IF e.keyCode = TAB_KEYCODE /\ ~st.prevented
    THEN BrowserTab(st.focus, e.shiftKey)
    ELSE st.focus

NoEvent == [keyCode |-> 0, shiftKey |-> FALSE, target |-> None,
            prevented |-> FALSE, trap |-> "unset"]

(***************************************************************************)
(* The focus trap: initial state and operations                            *)
(***************************************************************************)
Doms ==
    {d \in [tooltipContainer : BOOLEAN, target : BOOLEAN,
            disableMaskInteraction : BOOLEAN,
            tipN : 0..MaxFocusables, tgtN : 0..MaxFocusables,
            tipAt : -1..MaxFocusables] :
        /\ (~d.tooltipContainer => d.tipN = 0 /\ d.tipAt = -1)
        /\ (~d.target => d.tgtN = 0 /\ d.tipAt = -1)
        /\ d.tipAt <= d.tgtN}

TrapInit ==
    /\ dom \in Doms
    /\ focus = El("page", 1)
    /\ listeners = [container |-> {}, target |-> {}]
    /\ trapState = "unset"
    /\ targetTrapHandler = {}
    /\ tooltipTrapHandler = {}
    /\ lastEvent = NoEvent
    /\ threw = FALSE
    /\ cleanups = 0

TrapIdle ==
    /\ dom = [tooltipContainer |-> FALSE, target |-> FALSE,
              disableMaskInteraction |-> FALSE, tipN |-> 0, tgtN |-> 0,
              tipAt |-> -1]
    /\ focus = El("page", 1)
    /\ listeners = [container |-> {}, target |-> {}]
    /\ trapState = "unset"
    /\ targetTrapHandler = {}
    /\ tooltipTrapHandler = {}
    /\ lastEvent = NoEvent
    /\ threw = FALSE
    /\ cleanups = 0

\* a faulty condition that chains the target whatever the mask setting
Chains_IgnoresMask(tgt) ==
    dom.target /\ tgt.start # None /\ tgt.end # None

\* the target is chained into the ring (tour.ts line 88)
Chains(tgt) ==
    dom.target /\ ~dom.disableMaskInteraction /\ tgt.start # None /\ tgt.end # None

\* setFocusTrap(tooltipContainer, target, disableMaskInteraction)
setFocusTrap ==
    /\ trapState = "unset"
    /\ IF ~dom.tooltipContainer
       THEN /\ trapState' = "noop"
            /\ UNCHANGED <<listeners, targetTrapHandler, tooltipTrapHandler>>
       ELSE LET tip == getEdgeFocusables(dom.tooltipContainer, TooltipFocusables)
                tgt == getEdgeFocusables(dom.target, TargetFocusables)
                chained == Chains(tgt)
                tooltipAfterEnd    == IF chained THEN tgt.start ELSE None
                tooltipBeforeStart == IF chained THEN tgt.end ELSE None
                tgtH == getFocusTrapHandler(
                            [start |-> tgt.start, end |-> tgt.end,
                             beforeStart |-> tip.end, afterEnd |-> tip.start,
                             lightningRod |-> None])
                tipH == getFocusTrapHandler(
                            [start |-> tip.start, end |-> tip.end,
                             beforeStart |-> tooltipBeforeStart,
                             afterEnd |-> tooltipAfterEnd,
                             lightningRod |-> Container])
            IN /\ targetTrapHandler' = IF chained THEN {tgtH} ELSE {}
               /\ tooltipTrapHandler' = {tipH}
               /\ listeners' =
                    [container |-> listeners.container \cup {tipH},
                     target |-> listeners.target
                                  \cup (IF chained THEN {tgtH} ELSE {})]
               /\ trapState' = "set"
    /\ lastEvent' = NoEvent
    /\ UNCHANGED <<dom, focus, threw, cleanups>>
    /\ UNCHANGED <<debVars, clickVars, decVars>>

\* a faulty cleanup that leaves the target's listener registered
cleanup_KeepsTargetListener ==
    /\ trapState \in {"set", "released"}
    /\ cleanups < MaxCleanups
    /\ cleanups' = cleanups + 1
    /\ listeners' = [listeners EXCEPT
                       !.container = listeners.container \ tooltipTrapHandler]
    /\ trapState' = "released"
    /\ UNCHANGED <<dom, focus, targetTrapHandler, tooltipTrapHandler, lastEvent,
                   threw>>
    /\ UNCHANGED <<debVars, clickVars, decVars>>

\* the closure setFocusTrap returned (tour.ts lines 98-104); removing a
\* listener that is not registered, or an undefined one, does nothing
cleanup ==
    /\ trapState \in {"set", "released"}
    /\ cleanups < MaxCleanups
    /\ cleanups' = cleanups + 1
    /\ listeners' =
         [container |-> listeners.container \ tooltipTrapHandler,
          target |-> IF dom.target THEN listeners.target \ targetTrapHandler
                     ELSE listeners.target]
    /\ trapState' = "released"
    /\ UNCHANGED <<dom, focus, targetTrapHandler, tooltipTrapHandler, lastEvent,
                   threw>>
    /\ UNCHANGED <<debVars, clickVars, decVars>>

\* a keydown on the focused element
KeyDown(keyCode, shiftKey) ==
    /\ focus \in Elements
    /\ LET e  == [keyCode |-> keyCode, shiftKey |-> shiftKey, target |-> focus]
           st == Dispatch(e)
       IN /\ focus' = DefaultAction(e, st)
          /\ threw' = (threw \/ st.threw)
          /\ lastEvent' = [keyCode |-> keyCode, shiftKey |-> shiftKey,
                           target |-> focus, prevented |-> st.prevented,
                           trap |-> trapState]
    /\ UNCHANGED <<dom, listeners, trapState, targetTrapHandler,
                   tooltipTrapHandler, cleanups>>
    /\ UNCHANGED <<debVars, clickVars, decVars>>

\* the user (or a script) puts the focus on an element, e.g. by a click
UserFocus(el) ==
    /\ el \in Elements
    /\ el # focus
    /\ focus' = el
    /\ lastEvent' = NoEvent
    /\ UNCHANGED <<dom, listeners, trapState, targetTrapHandler,
                   tooltipTrapHandler, threw, cleanups>>
    /\ UNCHANGED <<debVars, clickVars, decVars>>

TrapNext ==
    \/ setFocusTrap
    \/ cleanup
    \/ \E k \in KeyCodes, s \in BOOLEAN : KeyDown(k, s)
    \/ \E el \in Elements : UserFocus(el)

(***************************************************************************)
(* debounce(f, interval).  Time is discrete; a timer whose delay has       *)
(* elapsed runs before the clock advances and before any later task.       *)
(***************************************************************************)
ArgValues == 1..MaxArg

\* a faulty clearTimeout that cancels nothing
clearTimeout_CancelsNothing(ts, id) == ts

\* window.clearTimeout(id): an id that is not pending is ignored
clearTimeout(ts, id) == {t \in ts : t.id # id}

\* window.setTimeout(() => f(...args), interval), handing out id
setTimeout(ts, id, a, delay) == ts \cup {[id |-> id, due |-> now + delay, args |-> a]}

TimerDue == \E t \in timers : t.due <= now

DebounceInit ==
    /\ interval \in 0..MaxInterval
    /\ now = 0
    /\ timeoutId = 0
    /\ timers = {}
    /\ nextTimerId = 1
    /\ calls = <<>>
    /\ fired = <<>>

DebounceIdle ==
    /\ interval = 0
    /\ now = 0
    /\ timeoutId = 0
    /\ timers = {}
    /\ nextTimerId = 1
    /\ calls = <<>>
    /\ fired = <<>>

\* the wrapper debounce returned, invoked with argument a (tour.ts 10-15)
Wrapper(a) ==
    /\ Len(calls) < MaxCalls
    /\ ~TimerDue
    /\ LET cleared == IF timeoutId # 0 THEN clearTimeout(timers, timeoutId)
                      ELSE timers
       IN timers' = setTimeout(cleared, nextTimerId, a, interval)
    /\ timeoutId' = nextTimerId
    /\ nextTimerId' = nextTimerId + 1
    /\ calls' = Append(calls, [at |-> now, args |-> a])
    /\ UNCHANGED <<interval, now, fired>>
    /\ UNCHANGED <<trapVars, clickVars, decVars>>

\* a pending timer runs its callback: f(...args)
TimerFires(t) ==
    /\ t \in timers
    /\ t.due <= now
    /\ timers' = timers \ {t}
    /\ fired' = Append(fired, [at |-> now, args |-> t.args])
    /\ UNCHANGED <<interval, now, timeoutId, nextTimerId, calls>>
    /\ UNCHANGED <<trapVars, clickVars, decVars>>

\* time passes
Tick ==
    /\ now < MaxTime
    /\ ~TimerDue
    /\ now' = now + 1
    /\ UNCHANGED <<interval, timeoutId, timers, nextTimerId, calls, fired>>
    /\ UNCHANGED <<trapVars, clickVars, decVars>>

DebounceNext ==
    \/ \E a \in ArgValues : Wrapper(a)
    \/ \E t \in timers : TimerFires(t)
    \/ Tick

(***************************************************************************)
(* takeActionIfValid and setNextOnTargetClick.  A task is one invocation   *)
(* of takeActionIfValid: st is the state of its promise, res what the      *)
(* validator settled to, acted how often it invoked its action.            *)
(***************************************************************************)
Ev(ev, task) == [ev |-> ev, task |-> task, arg |-> FALSE]
EvNext(task, arg) == [ev |-> "next", task |-> task, arg |-> arg]

\* takeActionIfValid up to its suspension point (tour.ts 207-216)
takeActionIfValid(actionValidator) ==
    IF actionValidator
    THEN [st |-> "awaiting", res |-> "none", acted |-> 0]
    ELSE [st |-> "fulfilled", res |-> "none", acted |-> 1]

\* faulty variants: one that acts whatever the validator resolved to, ...
takeActionIfValidResume_ActsOnFalse(t, outcome) ==
    IF outcome = "reject"
    THEN [st |-> "rejected", res |-> "reject", acted |-> t.acted]
    ELSE [st |-> "fulfilled", res |-> outcome, acted |-> t.acted + 1]

\* ... and one that catches the validator's rejection
takeActionIfValidResume_CatchesRejection(t, outcome) ==
    IF outcome = "true"
    THEN [st |-> "fulfilled", res |-> "true", acted |-> t.acted + 1]
    ELSE [st |-> "fulfilled", res |-> outcome, acted |-> t.acted]

\* ... and from the point the validator's promise settles
\* (outcome: "true", "false" or "reject")
takeActionIfValidResume(t, outcome) ==
    IF outcome = "reject"
    THEN [st |-> "rejected", res |-> "reject", acted |-> t.acted]
    ELSE IF outcome = "true"
    THEN [st |-> "fulfilled", res |-> "true", acted |-> t.acted + 1]
    ELSE [st |-> "fulfilled", res |-> "false", acted |-> t.acted]

\* actionWithCleanup: next(true), then the handler removes itself
actionWithCleanup_Guarded(task) ==
    IF click.listening THEN <<EvNext(task, TRUE), Ev("remove", task)>> ELSE <<>>

actionWithCleanup(task) == <<EvNext(task, TRUE), Ev("remove", task)>>

Count(ev) == Cardinality({p \in 1..Len(log) : log[p].ev = ev})

ClickInit ==
    /\ click \in [target : BOOLEAN, validateNext : BOOLEAN,
                  state : {"unset"}, listening : {FALSE}]
    /\ tasks = <<>>
    /\ log = <<>>

ClickIdle ==
    /\ click = [target |-> FALSE, validateNext |-> FALSE, state |-> "unset",
                listening |-> FALSE]
    /\ tasks = <<>>
    /\ log = <<>>

\* setNextOnTargetClick(target, next, validateNext)
setNextOnTargetClick ==
    /\ click.state = "unset"
    /\ click' = IF ~click.target
                THEN [click EXCEPT !.state = "noop"]
                ELSE [click EXCEPT !.state = "set", !.listening = TRUE]
    /\ log' = IF click.target THEN Append(log, Ev("install", 0)) ELSE log
    /\ UNCHANGED tasks
    /\ UNCHANGED <<trapVars, debVars, decVars>>

\* a click on the target: clickHandler runs if it is (still) registered
TargetClick ==
    /\ click.target
    /\ Count("click") < MaxClicks
    /\ IF click.listening
       THEN LET i == Len(tasks) + 1
                t == takeActionIfValid(click.validateNext)
            IN /\ tasks' = Append(tasks, t)
               /\ log' = log \o <<Ev("click", i)>>
                         \o (IF click.validateNext THEN <<Ev("validate", i)>>
                             ELSE <<>>)
                         \o (IF t.acted > 0 THEN actionWithCleanup(i) ELSE <<>>)
               /\ click' = IF t.acted > 0 THEN [click EXCEPT !.listening = FALSE]
                           ELSE click
       ELSE /\ log' = Append(log, Ev("click", 0))
            /\ UNCHANGED <<click, tasks>>
    /\ UNCHANGED <<trapVars, debVars, decVars>>

\* the promise validateNext returned for task i settles
ValidatorSettles(i, outcome) ==
    /\ i \in 1..Len(tasks)
    /\ tasks[i].st = "awaiting"
    /\ LET t == takeActionIfValidResume(tasks[i], outcome)
           acts == t.acted > tasks[i].acted
       IN /\ tasks' = [tasks EXCEPT ![i] = t]
          /\ log' = log \o <<Ev(outcome, i)>>
                    \o (IF acts THEN actionWithCleanup(i) ELSE <<>>)
          /\ click' = IF acts THEN [click EXCEPT !.listening = FALSE] ELSE click
    /\ UNCHANGED <<trapVars, debVars, decVars>>

\* a faulty detach that removes nothing
detach_KeepsListener ==
    /\ click.state = "set"
    /\ Count("detach") < MaxDetach
    /\ log' = Append(log, Ev("detach", 0))
    /\ UNCHANGED <<click, tasks>>
    /\ UNCHANGED <<trapVars, debVars, decVars>>

\* the closure setNextOnTargetClick returned (tour.ts 236)
detach ==
    /\ click.state = "set"
    /\ Count("detach") < MaxDetach
    /\ click' = [click EXCEPT !.listening = FALSE]
    /\ log' = Append(log, Ev("detach", 0))
    /\ UNCHANGED tasks
    /\ UNCHANGED <<trapVars, debVars, decVars>>

ClickNext ==
    \/ setNextOnTargetClick
    \/ TargetClick
    \/ \E i \in 1..MaxClicks, o \in {"true", "false", "reject"} :
          ValidatorSettles(i, o)
    \/ detach

(***************************************************************************)
(* The update decision: targetChanged.  An optional value is a set with    *)
(* at most one element (empty = absent).  The live geometry of the target  *)
(* (what getElementDims and getTargetPosition measure) is part of args.    *)
(***************************************************************************)
CoordsSet == [x : 0..MaxCoord, y : 0..MaxCoord]
DimsSet   == [width : 1..MaxDim, height : 1..MaxDim]
Optional(S) == {{}} \cup {{v} : v \in S}
Infinity  == [inf |-> TRUE, v |-> 0]
Tolerances == {[inf |-> FALSE, v |-> n] : n \in 0..MaxTolerance} \cup {Infinity}

The(S) == CHOOSE v \in S : TRUE

\* areaDiff(a, b) of ./dom: the difference of the two areas
areaDiff(a, b) ==
    LET d == (a.width * a.height) - (b.width * b.height)
    IN IF d < 0 THEN -d ELSE d

\* dist(a, b) of ./dom is the Euclidean distance; the model keeps its square
distSquared(a, b) == (a.x - b.x) * (a.x - b.x) + (a.y - b.y) * (a.y - b.y)

\* a faulty comparison that already fires at the tolerance itself
Exceeds_OrEqual(value, tol) == ~tol.inf /\ value >= tol.v

\* value > tolerance, for a tolerance that may be Infinity
Exceeds(value, tol) == ~tol.inf /\ value > tol.v
\* dist(a, b) > tolerance
DistExceeds(a, b, tol) == ~tol.inf /\ distSquared(a, b) > tol.v * tol.v

Outcome(value, measured) == [value |-> value, measured |-> measured]

\* What the measuring primitives of ./dom do with an absent operand is not
\* fixed by tour.ts: any result is possible, after the measurement began.
Unspecified == {Outcome(v, TRUE) : v \in {"true", "false", "throw"}}

\* targetChanged(args): the set of possible outcomes (tour.ts 156-174)
targetChanged(a) ==
    IF ~a.target /\ a.targetCoords = {} /\ a.targetDims = {}
    THEN {Outcome("false", FALSE)}
    ELSE IF \/ (~a.target /\ a.targetCoords # {} /\ a.targetDims # {})
            \/ (a.target /\ a.targetCoords = {} /\ a.targetDims = {})
    THEN {Outcome("true", FALSE)}
    ELSE IF ~a.target \/ a.targetCoords = {} \/ a.targetDims = {}
    THEN Unspecified
    ELSE LET currentTargetSize == a.liveDims
             currentTargetPosition == a.liveCoords
             sizeChanged == Exceeds(areaDiff(currentTargetSize, The(a.targetDims)),
                                    a.rerenderTolerance)
             positionChanged == DistExceeds(currentTargetPosition,
                                            The(a.targetCoords),
                                            a.rerenderTolerance)
         IN {Outcome(IF sizeChanged \/ positionChanged THEN "true" ELSE "false",
                     TRUE)}

NoRet == [fn |-> "none", value |-> "none", measured |-> FALSE]

DecideInit ==
    /\ args \in [target : BOOLEAN, targetCoords : Optional(CoordsSet),
                 targetDims : Optional(DimsSet), rerenderTolerance : Tolerances,
                 liveCoords : CoordsSet, liveDims : DimsSet]
    /\ ret = NoRet

DecideIdle ==
    /\ args = [target |-> FALSE, targetCoords |-> {}, targetDims |-> {},
               rerenderTolerance |-> Infinity,
               liveCoords |-> [x |-> 0, y |-> 0],
               liveDims |-> [width |-> 1, height |-> 1]]
    /\ ret = NoRet

CallTargetChanged ==
    /\ ret = NoRet
    /\ ret' \in {[fn |-> "targetChanged", value |-> o.value,
                  measured |-> o.measured] : o \in targetChanged(args)}
    /\ UNCHANGED args
    /\ UNCHANGED <<trapVars, debVars, clickVars>>

DecideNext == CallTargetChanged

(***************************************************************************)
(* The update decision: shouldScroll.  What the collaborators report for   *)
(* the arguments is part of args: tooltipInView is isElementInView(root,   *)
(* tooltip, tooltipPosition), targetInView is isElementInView(root,        *)
(* target), foreign is isForeignTarget(root, selector), liveDims is        *)
(* getElementDims(target), viewportDims is getViewportDims(root).          *)
(***************************************************************************)
\* a selector argument: left out, the empty string, or a selector
Selectors == {"absent", "", "#target"}
Truthy(selector) == selector \notin {"absent", ""}

\* fitsWithin(a, b) of ./dom: box a is no wider and no taller than box b
fitsWithin(a, b) == a.width <= b.width /\ a.height <= b.height

\* a faulty variant that scrolls to an out-of-view target of any size
naiveShouldScroll_IgnoresFit(a) ==
    IF ~a.tooltipInView THEN TRUE
    ELSE IF ~a.targetInView THEN TRUE
    ELSE FALSE

\* naiveShouldScroll(args) (tour.ts 114-126)
naiveShouldScroll(a) ==
    IF ~a.tooltipInView THEN TRUE
    ELSE IF ~a.targetInView THEN fitsWithin(a.liveDims, a.viewportDims)
    ELSE FALSE

\* a faulty variant without the disableAutoScroll guard
shouldScroll_IgnoresDisable(a) ==
    IF ~a.root \/ ~a.tooltip \/ ~a.target THEN FALSE
    ELSE IF a.allowForeignTarget /\ Truthy(a.selector) THEN ~a.foreign
    ELSE naiveShouldScroll(a)

\* shouldScroll(args) (tour.ts 133-147)
shouldScroll(a) ==
    IF ~a.root \/ ~a.tooltip \/ ~a.target THEN FALSE
    ELSE IF a.disableAutoScroll THEN FALSE
    ELSE IF a.allowForeignTarget /\ Truthy(a.selector) THEN ~a.foreign
    ELSE naiveShouldScroll(a)

Bool(b) == IF b THEN "true" ELSE "false"

ScrollInit ==
    /\ args \in [root : BOOLEAN, tooltip : BOOLEAN, target : BOOLEAN,
                 disableAutoScroll : BOOLEAN, allowForeignTarget : BOOLEAN,
                 selector : Selectors, foreign : BOOLEAN,
                 tooltipInView : BOOLEAN, targetInView : BOOLEAN,
                 liveDims : DimsSet, viewportDims : DimsSet]
    /\ ret = NoRet

CallShouldScroll ==
    /\ ret = NoRet
    /\ ret' = [fn |-> "shouldScroll", value |-> Bool(shouldScroll(args)),
               measured |-> FALSE]
    /\ UNCHANGED args
    /\ UNCHANGED <<trapVars, debVars, clickVars>>

ScrollNext == CallShouldScroll

(***************************************************************************)
(* The update decision: tooltipDesync.  newPosition is the coords of what  *)
(* getTooltipPosition(args) computes for the arguments.                    *)
(***************************************************************************)
\* a faulty variant that also compares when there is a target
tooltipDesync_IgnoresTarget(a) ==
    IF ~a.root \/ ~a.tooltip THEN FALSE
    ELSE distSquared(a.newPosition, a.tooltipPosition) # 0

\* tooltipDesync(args) (tour.ts 183-194)
tooltipDesync(a) ==
    IF a.target \/ ~a.root \/ ~a.tooltip THEN FALSE
    ELSE distSquared(a.newPosition, a.tooltipPosition) # 0

DesyncInit ==
    /\ args \in [target : BOOLEAN, root : BOOLEAN, tooltip : BOOLEAN,
                 tooltipPosition : CoordsSet, newPosition : CoordsSet]
    /\ ret = NoRet

CallTooltipDesync ==
    /\ ret = NoRet
    /\ ret' = [fn |-> "tooltipDesync", value |-> Bool(tooltipDesync(args)),
               measured |-> FALSE]
    /\ UNCHANGED args
    /\ UNCHANGED <<trapVars, debVars, clickVars>>

DesyncNext == CallTooltipDesync

(***************************************************************************)
(* The update decision: shouldUpdate, called with the combined bundle.     *)
(* To keep the bundles enumerable the geometry varies along one axis: the  *)
(* live target sits at the origin, the tooltip is rendered at the origin,  *)
(* the viewport is one unit wide, and a target that is absent has no live  *)
(* geometry and is not in view.                                            *)
(***************************************************************************)
Origin   == [x |-> 0, y |-> 0]
UnitDims == [width |-> 1, height |-> 1]
AxisCoords == {c \in CoordsSet : c.y = 0}
AxisDims   == {d \in DimsSet : d.height = 1}

\* a faulty variant without the guard on root and tooltip
shouldUpdate_NoGuard(a) ==
    {[value |-> IF o.value = "throw" THEN "throw"
                ELSE IF o.value = "true" THEN "true"
                ELSE Bool(shouldScroll(a) \/ tooltipDesync(a)),
      tc |-> o.value] : o \in targetChanged(a)}

\* shouldUpdate(args) (tour.ts 198-205): the possible outcomes, each with
\* what its evaluation of targetChanged gave (tc, "none" if not evaluated).
\* An exception raised under targetChanged leaves shouldUpdate; a true ends
\* the evaluation of ||.
shouldUpdate(a) ==
    IF ~a.root \/ ~a.tooltip
    THEN {[value |-> "false", tc |-> "none"]}
    ELSE {[value |-> IF o.value = "throw" THEN "throw"
                     ELSE IF o.value = "true" THEN "true"
                     ELSE Bool(shouldScroll(a) \/ tooltipDesync(a)),
           tc |-> o.value] : o \in targetChanged(a)}

UpdateInit ==
    /\ args \in [root : BOOLEAN, tooltip : BOOLEAN, target : BOOLEAN,
                 targetCoords : Optional(AxisCoords),
                 targetDims : Optional(AxisDims),
                 rerenderTolerance : Tolerances,
                 liveCoords : {Origin}, liveDims : AxisDims,
                 disableAutoScroll : BOOLEAN, allowForeignTarget : BOOLEAN,
                 selector : Selectors, foreign : BOOLEAN,
                 tooltipInView : BOOLEAN, targetInView : BOOLEAN,
                 viewportDims : {UnitDims},
                 tooltipPosition : {Origin}, newPosition : AxisCoords]
    /\ (~args.target => args.liveDims = UnitDims /\ ~args.targetInView)
    /\ ret = NoRet

CallShouldUpdate ==
    /\ ret = NoRet
    /\ ret' \in {[fn |-> "shouldUpdate", value |-> o.value, measured |-> FALSE,
                  tc |-> o.tc] : o \in shouldUpdate(args)}
    /\ UNCHANGED args
    /\ UNCHANGED <<trapVars, debVars, clickVars>>

UpdateNext == CallShouldUpdate

(***************************************************************************)
(* Offset reconciliation (src/src/utils/offset.ts).  Results are kept in   *)
(* half units, [x2, y2] = twice the coordinate, so that the halves of      *)
(* applyCenterOffset stay exact.  In args, a / d / b are the geometry the  *)
(* call works on: for applyCenterOffset its three arguments; for           *)
(* centerElementInViewport the element's coords and dims and the           *)
(* viewport's dims; for getViewportCenter the viewport's start and dims    *)
(* and the element's dims.  coords, rootCoords, docScroll and rootScroll   *)
(* are what addAppropriateOffset gets and reads.                           *)
(***************************************************************************)
Twice(c) == [x2 |-> 2 * c.x, y2 |-> 2 * c.y]
ZeroDims == [width |-> 0, height |-> 0]

\* getCurrentScrollOffset(root) (offset.ts 4-17)
getCurrentScrollOffset(a) ==
    IF a.rootIsBody THEN a.docScroll ELSE a.rootScroll

\* addScrollOffset(root, coords) (offset.ts 19-25)
addScrollOffset(a, coords) ==
    LET curOffset == getCurrentScrollOffset(a)
    IN [x |-> coords.x + curOffset.x, y |-> coords.y + curOffset.y]

Returned(fn, at) == [fn |-> fn, value |-> "coords", measured |-> FALSE, at |-> at]
Undefined(fn)    == [fn |-> fn, value |-> "undefined", measured |-> FALSE]
Throws(fn)       == [fn |-> fn, value |-> "throw", measured |-> FALSE]

\* addAppropriateOffset(root, coords) (offset.ts 27-41)
addAppropriateOffset(a) ==
    IF a.coords = {} \/ ~a.root
    THEN Undefined("addAppropriateOffset")
    ELSE IF ~a.rootIsBody
    THEN Returned("addAppropriateOffset",
                  Twice(addScrollOffset(a, [x |-> The(a.coords).x - a.rootCoords.x,
                                            y |-> The(a.coords).y - a.rootCoords.y])))
    ELSE Returned("addAppropriateOffset", Twice(addScrollOffset(a, The(a.coords))))

\* a faulty variant that halves only the first box
applyCenterOffset_WholeB(aCoords, aDims, b) ==
    [x2 |-> 2 * aCoords.x + aDims.width - 2 * b.width,
     y2 |-> 2 * aCoords.y + aDims.height - 2 * b.height]

\* applyCenterOffset(aCoords, aDims, b) (offset.ts 45-50), in half units
applyCenterOffset(aCoords, aDims, b) ==
    [x2 |-> 2 * aCoords.x + aDims.width - b.width,
     y2 |-> 2 * aCoords.y + aDims.height - b.height]

\* centerElementInViewport(root, element) (offset.ts 53-59): the possible
\* outcomes.  element.getBoundingClientRect() raises a TypeError when the
\* element is absent; what getViewportDims makes of an absent root is not
\* fixed by offset.ts.
centerElementInViewport(a) ==
    IF ~a.element
    THEN {Throws("centerElementInViewport")}
    ELSE {Returned("centerElementInViewport", applyCenterOffset(a.a, a.d, a.b))}
         \cup (IF a.root THEN {} ELSE {Throws("centerElementInViewport")})

\* getViewportCenter(root, element) (offset.ts 63-75)
getViewportCenter(a) ==
    IF ~a.root
    THEN Undefined("getViewportCenter")
    ELSE LET elementDims == IF a.element THEN a.b ELSE ZeroDims
         IN Returned("getViewportCenter", applyCenterOffset(a.a, a.d, elementDims))

OffsetArgs ==
    [root : BOOLEAN, element : BOOLEAN, rootIsBody : BOOLEAN,
     a : CoordsSet, d : DimsSet, b : DimsSet,
     coords : {{}}, rootCoords : {Origin}, docScroll : {Origin},
     rootScroll : {Origin}]
    \cup
    [root : BOOLEAN, element : {FALSE}, rootIsBody : BOOLEAN,
     a : {Origin}, d : {UnitDims}, b : {UnitDims},
     coords : Optional(CoordsSet), rootCoords : CoordsSet,
     docScroll : CoordsSet, rootScroll : CoordsSet]

OffsetInit ==
    /\ args \in OffsetArgs
    /\ (args.rootIsBody => args.root)
    /\ ret = NoRet

CallAddAppropriateOffset ==
    /\ ret = NoRet
    /\ ret' = addAppropriateOffset(args)
    /\ UNCHANGED args
    /\ UNCHANGED <<trapVars, debVars, clickVars>>

CallApplyCenterOffset ==
    /\ ret = NoRet
    /\ ret' = Returned("applyCenterOffset",
                       applyCenterOffset(args.a, args.d, args.b))
    /\ UNCHANGED args
    /\ UNCHANGED <<trapVars, debVars, clickVars>>

CallCenterElementInViewport ==
    /\ ret = NoRet
    /\ ret' \in centerElementInViewport(args)
    /\ UNCHANGED args
    /\ UNCHANGED <<trapVars, debVars, clickVars>>

CallGetViewportCenter ==
    /\ ret = NoRet
    /\ ret' = getViewportCenter(args)
    /\ UNCHANGED args
    /\ UNCHANGED <<trapVars, debVars, clickVars>>

OffsetNext ==
    \/ CallAddAppropriateOffset
    \/ CallApplyCenterOffset
    \/ CallCenterElementInViewport
    \/ CallGetViewportCenter

(***************************************************************************)
(* Specifications                                                          *)
(***************************************************************************)
Idle(part) ==
    /\ (part # "trap" => TrapIdle)
    /\ (part # "debounce" => DebounceIdle)
    /\ (part # "click" => ClickIdle)
    /\ (part # "decide" => DecideIdle)

TrapSpecInit     == TrapInit /\ Idle("trap")
DebounceSpecInit == DebounceInit /\ Idle("debounce")
ClickSpecInit    == ClickInit /\ Idle("click")
DecideSpecInit   == DecideInit /\ Idle("decide")
ScrollSpecInit   == ScrollInit /\ Idle("decide")
DesyncSpecInit   == DesyncInit /\ Idle("decide")
UpdateSpecInit   == UpdateInit /\ Idle("decide")
OffsetSpecInit   == OffsetInit /\ Idle("decide")

TrapSpec     == TrapSpecInit /\ [][TrapNext]_vars
DebounceSpec == DebounceSpecInit /\ [][DebounceNext]_vars
ClickSpec    == ClickSpecInit /\ [][ClickNext]_vars
DecideSpec   == DecideSpecInit /\ [][DecideNext]_vars
ScrollSpec   == ScrollSpecInit /\ [][ScrollNext]_vars
DesyncSpec   == DesyncSpecInit /\ [][DesyncNext]_vars
UpdateSpec   == UpdateSpecInit /\ [][UpdateNext]_vars
OffsetSpec   == OffsetSpecInit /\ [][OffsetNext]_vars

(***************************************************************************)
(* Properties of the focus trap (TrapSpec)                                 *)
(***************************************************************************)
\* the edge focusables of the two regions, read off the page
TipFirst == El("tip", 1)
TipLast  == El("tip", dom.tipN)
TgtFirst == El("tgt", 1)
TgtLast  == El("tgt", dom.tgtN)

\* the target region is part of the ring
Chained ==
    /\ dom.tooltipContainer /\ dom.target /\ ~dom.disableMaskInteraction
    /\ dom.tgtN >= 1

\* the last keydown was a Tab (shift as given) on el, with the trap installed
Tabbed(shiftKey, el) ==
    /\ lastEvent.trap = "set"
    /\ lastEvent.keyCode = TAB_KEYCODE
    /\ lastEvent.shiftKey = shiftKey
    /\ lastEvent.target = el

\* C1: with tooltip edge focusables (A, B), target edge focusables (C, D) and
\* mask interaction not disabled, Shift-Tab on A moves focus to D, Tab on D
\* to A, Tab on B to C and Shift-Tab on C to B.
C1_Ring ==
    (Chained /\ dom.tipN >= 1) =>
        /\ (Tabbed(TRUE, TipFirst) => focus = TgtLast)
        /\ (Tabbed(FALSE, TgtLast) => focus = TipFirst)
        /\ (Tabbed(FALSE, TipLast) => focus = TgtFirst)
        /\ (Tabbed(TRUE, TgtFirst) => focus = TipLast)

C1_Witness ==
    /\ Chained /\ dom.tipN >= 2 /\ dom.tgtN >= 2
    /\ Tabbed(TRUE, TipFirst)
    /\ focus = TgtLast

\* an element of the ring: a focusable of the tooltip, or of a chained target
InRing(el) == el.r = "tip" \/ (el.r = "tgt" /\ Chained)

\* C2: while the trap is installed, a Tab or Shift-Tab keydown on an element
\* of the ring leaves the focus on an element of the ring (so no sequence of
\* them leads out of it).
C2_ClosedLoop ==
    \A s \in BOOLEAN :
        (\E el \in Elements : InRing(el) /\ Tabbed(s, el)) => InRing(focus)

\* the browser's own move carried the focus from one region into the other
C2_Witness ==
    /\ \E s \in BOOLEAN, el \in Elements : InRing(el) /\ Tabbed(s, el)
    /\ ~lastEvent.prevented
    /\ InRing(focus)
    /\ focus.r # lastEvent.target.r

\* C3: after setFocusTrap a Tab keydown, with or without Shift, whose target
\* is the tooltip container moves the focus to the tooltip's first focusable.
C3_LightningRod ==
    \A s \in BOOLEAN :
        (Tabbed(s, Container) /\ dom.tipN >= 1) =>
            (focus = TipFirst /\ lastEvent.prevented)

C3_Witness ==
    /\ Tabbed(TRUE, Container)
    /\ dom.tipN >= 2
    /\ focus = TipFirst

\* C4: once the cleanup closure has been invoked no keydown handler is left
\* on the tooltip container or on the target, no later keydown is
\* intercepted, and further invocations change nothing and raise nothing.
C4_Cleanup ==
    cleanups >= 1 =>
        /\ trapState = "released"
        /\ listeners.container = {} /\ listeners.target = {}
        /\ (lastEvent.trap = "released" => ~lastEvent.prevented)
        /\ (lastEvent.trap = "released" /\ lastEvent.keyCode = TAB_KEYCODE =>
               focus = BrowserTab(lastEvent.target, lastEvent.shiftKey))

\* a chained trap, the cleanup invoked twice, then a Tab on the tooltip's last
C4_Witness ==
    /\ cleanups = 2
    /\ Chained /\ dom.tipN >= 1
    /\ lastEvent.trap = "released"
    /\ lastEvent.keyCode = TAB_KEYCODE /\ ~lastEvent.shiftKey
    /\ lastEvent.target = TipLast
    /\ ~threw

(***************************************************************************)
(* Properties of debounce (DebounceSpec)                                   *)
(***************************************************************************)
\* invocation i ends its burst: the next one, if any, comes no sooner than
\* interval after it
BurstLast(i) ==
    i = Len(calls) \/ calls[i + 1].at - calls[i].at >= interval

\* what the bursts should make of f: one invocation per burst, interval
\* after the burst's last invocation and with its arguments
ExpectedFirings ==
    LET idx == SelectSeq([i \in 1..Len(calls) |-> i], BurstLast)
    IN [k \in 1..Len(idx) |->
           [at |-> calls[idx[k]].at + interval, args |-> calls[idx[k]].args]]

Pos == 1..Len(log)

\* how often next was invoked on behalf of task i
NextCount(i) ==
    Cardinality({p \in Pos : log[p].ev = "next" /\ log[p].task = i})

\* the validator of task i settled with outcome o
Settled(i, o) == \E p \in Pos : log[p] = Ev(o, i)

\* C6: with a validator that resolves false a click neither invokes next nor
\* removes the click listener; a later click runs the validator again and,
\* if it resolves truthy, invokes next(true).
C6_FalseKeepsListener ==
    click.validateNext =>
        /\ \A p \in Pos : log[p].ev = "false" =>
              \A q \in Pos : ~(/\ log[q].task = log[p].task
                               /\ log[q].ev \in {"next", "remove"})
        /\ \A q \in Pos :
              (/\ log[q].ev = "click"
               /\ \E p \in 1..(q - 1) : log[p].ev = "install"
               /\ \A p \in 1..(q - 1) : log[p].ev \notin {"true", "detach"})
              => /\ log[q].task >= 1
                 /\ q + 1 <= Len(log)
                 /\ log[q + 1] = Ev("validate", log[q].task)
        /\ \A p \in Pos : log[p].ev = "true" =>
              /\ p + 1 <= Len(log)
              /\ log[p + 1] = EvNext(log[p].task, TRUE)

\* a click whose validation resolved false, then a click whose validation
\* resolved true and invoked next(true)
C6_Witness ==
    \E p, q, r \in Pos :
        /\ p < q /\ q < r /\ r < Len(log)
        /\ log[p].ev = "false"
        /\ log[q].ev = "click" /\ log[q].task >= 1
        /\ log[r] = Ev("true", log[q].task)
        /\ log[r + 1] = EvNext(log[q].task, TRUE)

\* C7: next is invoked at most once per registration.
C7_SingleShot == Count("next") <= 1

\* the detach closure was invoked before any click
DetachedFirst ==
    \E p \in Pos :
        log[p].ev = "detach" /\ \A q \in 1..(p - 1) : log[q].ev # "click"

\* C8: if the detach closure is invoked before any click has occurred, no
\* later click runs the validator or invokes next.
C8_DetachFirst ==
    DetachedFirst =>
        /\ tasks = <<>>
        /\ \A q \in Pos : log[q].ev \notin {"validate", "next"}

C8_Witness ==
    /\ DetachedFirst
    /\ click.validateNext
    /\ \E q \in Pos : log[q].ev = "click"

\* C9: takeActionIfValid invokes its action exactly once when there is no
\* validator or the validator resolves truthy, never when it resolves falsy
\* or rejects; a rejection is not caught: it is the outcome of the call.
C9_TakeActionIfValid ==
    \A i \in 1..Len(tasks) :
        /\ (~click.validateNext =>
               NextCount(i) = 1 /\ tasks[i].st = "fulfilled")
        /\ (Settled(i, "true") =>
               NextCount(i) = 1 /\ tasks[i].st = "fulfilled")
        /\ (Settled(i, "false") =>
               NextCount(i) = 0 /\ tasks[i].st = "fulfilled")
        /\ (Settled(i, "reject") =>
               NextCount(i) = 0 /\ tasks[i].st = "rejected")
        /\ (tasks[i].st = "awaiting" => NextCount(i) = 0)

C9_Witness ==
    \E i, j \in 1..Len(tasks) :
        /\ Settled(i, "reject") /\ tasks[i].st = "rejected"
        /\ Settled(j, "true") /\ NextCount(j) = 1

(***************************************************************************)
(* Properties of the update decision (DecideSpec)                          *)
(***************************************************************************)
\* C10: targetChanged returns true, without measuring the live target,
\* whenever exactly one of {target present, cached coords and dims both
\* present} holds, for every tolerance.
C10_SyncViolation ==
    (/\ ret.fn = "targetChanged"
     /\ args.target # (args.targetCoords # {} /\ args.targetDims # {}))
    => (ret.value = "true" /\ ~ret.measured)


\* the snapshot handed to targetChanged is consistent and complete
AllPresent == args.target /\ args.targetCoords # {} /\ args.targetDims # {}
AllAbsent  == ~args.target /\ args.targetCoords = {} /\ args.targetDims = {}

\* C11: for a consistent snapshot targetChanged returns false when target,
\* coords and dims are all absent; when all are present it returns true iff
\* the area difference or the distance between live and cached geometry
\* strictly exceeds rerenderTolerance; unchanged geometry with tolerance 0
\* gives false.
C11_Consistent ==
    ret.fn = "targetChanged" =>
        /\ (AllAbsent => ret.value = "false")
        /\ (AllPresent =>
              LET tol == args.rerenderTolerance
                  dA  == areaDiff(args.liveDims, The(args.targetDims))
                  d2  == distSquared(args.liveCoords, The(args.targetCoords))
                  over == ~tol.inf /\ (dA > tol.v \/ d2 > tol.v * tol.v)
              IN /\ ret.value = (IF over THEN "true" ELSE "false")
                 /\ (/\ args.liveDims = The(args.targetDims)
                     /\ args.liveCoords = The(args.targetCoords)
                     /\ tol = [inf |-> FALSE, v |-> 0]
                     => ret.value = "false"))

\* the live area differs from the cached one by exactly the tolerance, the
\* position is unchanged, and the call returned false
C11_Witness ==
    /\ ret.fn = "targetChanged" /\ AllPresent
    /\ ~args.rerenderTolerance.inf /\ args.rerenderTolerance.v >= 1
    /\ areaDiff(args.liveDims, The(args.targetDims)) = args.rerenderTolerance.v
    /\ args.liveCoords = The(args.targetCoords)
    /\ ret.value = "false"


(***************************************************************************)
(* Properties of shouldScroll (ScrollSpec)                                 *)
(***************************************************************************)
\* C12: shouldScroll returns false whenever disableAutoScroll is true,
\* whatever the other arguments are.
C12_DisableAutoScroll ==
    (ret.fn = "shouldScroll" /\ args.disableAutoScroll) => ret.value = "false"

\* everything present, the tooltip out of view, and yet no scroll
C12_Witness ==
    /\ ret.fn = "shouldScroll" /\ args.disableAutoScroll
    /\ args.root /\ args.tooltip /\ args.target
    /\ ~args.tooltipInView
    /\ ret.value = "false"

\* C19: with root, tooltip and target present and auto-scroll not disabled,
\* shouldScroll returns NOT isForeignTarget(root, selector) when
\* allowForeignTarget and a selector are both given, whatever the geometry;
\* otherwise true if the tooltip is not in view, else true iff the target is
\* not in view and its dims fit within the viewport dims, else false.
C19_ShouldScroll ==
    (/\ ret.fn = "shouldScroll"
     /\ args.root /\ args.tooltip /\ args.target
     /\ ~args.disableAutoScroll)
    => IF args.allowForeignTarget /\ Truthy(args.selector)
       THEN ret.value = Bool(~args.foreign)
       ELSE IF ~args.tooltipInView THEN ret.value = "true"
       ELSE ret.value =
              Bool(/\ ~args.targetInView
                   /\ args.liveDims.width <= args.viewportDims.width
                   /\ args.liveDims.height <= args.viewportDims.height)

\* an out-of-view target too tall for the viewport: no scroll
C19_Witness ==
    /\ ret.fn = "shouldScroll"
    /\ args.root /\ args.tooltip /\ args.target
    /\ ~args.disableAutoScroll /\ ~args.allowForeignTarget
    /\ args.tooltipInView /\ ~args.targetInView
    /\ args.liveDims.height > args.viewportDims.height
    /\ ret.value = "false"


(***************************************************************************)
(* Properties of tooltipDesync (DesyncSpec)                                *)
(***************************************************************************)
\* C13: tooltipDesync returns false whenever a target is present or root or
\* tooltip is missing; otherwise it returns true iff the freshly computed
\* position differs at all from the current tooltipPosition.
C13_TooltipDesync ==
    ret.fn = "tooltipDesync" =>
        IF args.target \/ ~args.root \/ ~args.tooltip
        THEN ret.value = "false"
        ELSE ret.value = Bool(args.newPosition # args.tooltipPosition)

\* a target is present and the recomputed position differs: still false
C13_Witness ==
    /\ ret.fn = "tooltipDesync"
    /\ args.target /\ args.root /\ args.tooltip
    /\ args.newPosition # args.tooltipPosition
    /\ ret.value = "false"


TornDownThenTrue(i, r) ==
    /\ r \in Pos /\ log[r] = Ev("true", i)
    /\ \E p \in 1..(r - 1), q \in 1..(r - 1) :
          p < q /\ log[p] = Ev("click", i) /\ log[q].ev = "detach"

\* C20: when the target is clicked, the detach closure is invoked while the
\* validator is pending and the validator then resolves truthy, next(true)
\* is still invoked.
C20_NoTeardownGuard ==
    \A i \in 1..Len(tasks), r \in Pos :
        TornDownThenTrue(i, r) =>
            (r < Len(log) /\ log[r + 1] = EvNext(i, TRUE))

C20_Witness ==
    /\ \E r \in Pos : TornDownThenTrue(1, r)
    /\ ~click.listening
    /\ Count("next") = 1 /\ Count("click") = 1

(***************************************************************************)
(* Further properties of the focus trap (TrapSpec)                         *)
(***************************************************************************)
\* C17: after setFocusTrap with no target, with disableMaskInteraction true
\* or with a target without focusable descendant, the target has no keydown
\* handler, Tab on the tooltip's last focusable moves focus to its first and
\* Shift-Tab on the first moves focus to the last.
C17_Unchained ==
    (dom.tooltipContainer /\ trapState = "set"
       /\ (~dom.target \/ dom.disableMaskInteraction \/ dom.tgtN = 0)) =>
        /\ listeners.target = {}
        /\ dom.tipN >= 1 =>
              /\ (Tabbed(FALSE, TipLast) => focus = TipFirst)
              /\ (Tabbed(TRUE, TipFirst) => focus = TipLast)

\* a target with focusables, kept out of the ring by the mask setting
C17_Witness ==
    /\ trapState = "set"
    /\ dom.target /\ dom.disableMaskInteraction /\ dom.tgtN >= 1
    /\ dom.tipN >= 2
    /\ Tabbed(TRUE, TipFirst)
    /\ focus = TipLast

\* C18: a keydown of a key other than Tab, with or without Shift, on any
\* element, is not prevented and leaves the focus where it was.
C18_OnlyTab ==
    lastEvent.keyCode = OTHER_KEYCODE =>
        (~lastEvent.prevented /\ focus = lastEvent.target)

\* Shift with another key on the first focusable of a chained tooltip
C18_Witness ==
    /\ lastEvent.keyCode = OTHER_KEYCODE /\ lastEvent.shiftKey
    /\ lastEvent.trap = "set" /\ Chained
    /\ lastEvent.target = TipFirst
    /\ focus = TipFirst

(***************************************************************************)
(* Properties of offset reconciliation (OffsetSpec)                        *)
(***************************************************************************)
\* C15: an entry point that receives an absent DOM reference returns a safe
\* default and never throws.
C15_NeverThrows ==
    (ret.fn # "none" /\ (~args.root \/ ~args.element)) => ret.value # "throw"

\* C16: a box of size b placed at applyCenterOffset(a, d, b) has the same
\* center as the box of size d anchored at a, whether b is smaller or larger
\* than d (in half units: twice the corner plus the size).
C16_Centering ==
    ret.fn = "applyCenterOffset" =>
        /\ ret.at.x2 + args.b.width = 2 * args.a.x + args.d.width
        /\ ret.at.y2 + args.b.height = 2 * args.a.y + args.d.height

\* b wider and lower than d, away from the origin
C16_Witness ==
    /\ ret.fn = "applyCenterOffset"
    /\ args.b.width > args.d.width /\ args.b.height < args.d.height
    /\ args.a.x > 0
    /\ ret.at.x2 < 2 * args.a.x /\ ret.at.y2 > 2 * args.a.y

====
